---- MODULE Spec2Model ----
(***************************************************************************)
(* Explicit (FTCS) solver for 1-D diffusion with first-order decay, and    *)
(* the convergence study that drives it (src/code).                        *)
(*                                                                         *)
(* Numbers.  The program computes in Python/numpy floats.  The model       *)
(* computes in exact rationals <<num, den>> (den > 0, lowest terms), i.e.  *)
(* it idealises float arithmetic as real arithmetic; the operations are    *)
(* applied in the order the source applies them.  Lengths of the reference *)
(* parameter set are written in millimetres (L = 5, D = 1/10000 mm^2/s) so *)
(* that every intermediate fits TLC's integers; alpha = D*dt/dx^2 is       *)
(* dimensionless and is not affected by the unit.                          *)
(*                                                                         *)
(* Arrays.  A numpy array is a sequence; Python index i is TLA+ index i+1. *)
(* Every array lives in `heap`, under the buffer the call allocated.       *)
(***************************************************************************)
EXTENDS Integers, Sequences, FiniteSets

VARIABLES
    p,          \* the parameter set (params.py), shared by every call
    pc,         \* per call of ftcs_solver: where the call stands
    arg,        \* per call: the arguments Nx, Nt
    loc,        \* per call: the locals dx, dt, alpha, warned, n, err
    heap,       \* array contents, per buffer
    alloc,      \* the buffers that have been allocated
    spc,        \* study: position in result_and_plot.py
    idx,        \* study: index of the current candidate in grids (1-based)
    Nt_conv,    \* study: step count of the current candidate
    calls,      \* study: the solver calls made, in order
    error,      \* study: RMS error of the current candidate
    errors,     \* study: recorded errors
    dx_values,  \* study: recorded grid spacings
    fit         \* study: what the slope calculation did

solverVars == <<pc, arg, loc, heap, alloc>>
studyVars == <<spc, idx, Nt_conv, calls, error, errors, dx_values, fit>>
vars == <<p, pc, arg, loc, heap, alloc,
          spc, idx, Nt_conv, calls, error, errors, dx_values, fit>>

---------------------------------------------------------------------------
(* Bounds of the model *)

NCalls == 1
NRuns == 2
MaxNx == 3
MaxNt == 2
ParMaxNt == 1
MinArg == 2
MaxErr == 1

\* The calls a script makes one after the other
Calls == 1..NCalls

\* The calls whose steps interleave
Runs == 1..NRuns

---------------------------------------------------------------------------
(* Rational arithmetic: Python float arithmetic, idealised as exact *)

Abs(a) == IF a < 0 THEN -a ELSE a

RECURSIVE GCD(_, _)
GCD(a, b) == IF b = 0 THEN a ELSE GCD(b, a % b)

Norm(n, d) ==
    LET s == IF d < 0 THEN -1 ELSE 1
        g == GCD(Abs(n), Abs(d))
    IN  <<(s * n) \div g, (s * d) \div g>>

Rat(n) == <<n, 1>>

RAdd(a, b) ==
    LET g == GCD(a[2], b[2])
        l == (a[2] \div g) * b[2]
    IN  Norm(a[1] * (l \div a[2]) + b[1] * (l \div b[2]), l)

RNeg(a) == <<-a[1], a[2]>>

RSub(a, b) == RAdd(a, RNeg(b))

RMul(a, b) ==
    LET g1 == GCD(Abs(a[1]), b[2])
        g2 == GCD(Abs(b[1]), a[2])
    IN  Norm((a[1] \div g1) * (b[1] \div g2), (a[2] \div g2) * (b[2] \div g1))

\* a / b for b # 0 (a zero divisor raises ZeroDivisionError before this is used)
RDiv(a, b) == RMul(a, Norm(b[2], b[1]))

RGt(a, b) == a[1] * b[2] > b[1] * a[2]

---------------------------------------------------------------------------
(* params.py, and the other parameter sets the model draws from *)

Reference ==
    [L |-> <<5, 1>>, D |-> <<1, 10000>>, k |-> <<1, 5000>>,
     c0 |-> <<1, 1>>, T_final |-> <<7200, 1>>]

ParamA ==
    [L |-> <<1, 1>>, D |-> <<1, 8>>, k |-> <<1, 1>>,
     c0 |-> <<1, 1>>, T_final |-> <<1, 1>>]

ParamB ==
    [L |-> <<2, 1>>, D |-> <<1, 1>>, k |-> <<0, 1>>,
     c0 |-> <<2, 1>>, T_final |-> <<1, 1>>]

ParamC ==
    [L |-> <<1, 1>>, D |-> <<2, 1>>, k |-> <<1, 2>>,
     c0 |-> <<3, 1>>, T_final |-> <<1, 1>>]

SolverParams == {ParamA, ParamB, ParamC}

\* The parameter sets of the interleaved calls
ParParams == {ParamA, ParamB}

StudyParams == {Reference, ParamA, ParamB, ParamC}

stability_limit == <<1, 2>>

---------------------------------------------------------------------------
(* numpy arrays *)

\* Python's a[lo:hi] on an array of length Len(a): negative bounds count from
\* the end, and both are clipped to the array.
Clip(i, len) == IF i < 0 THEN (IF len + i < 0 THEN 0 ELSE len + i)
                ELSE IF i > len THEN len ELSE i

PySlice(a, lo, hi) ==
    LET b == Clip(lo, Len(a))
        e == Clip(hi, Len(a))
    IN  IF b < e THEN [j \in 1..(e - b) |-> a[b + j]] ELSE <<>>

VAdd(a, b) == [j \in 1..Len(a) |-> RAdd(a[j], b[j])]

VSub(a, b) == [j \in 1..Len(a) |-> RSub(a[j], b[j])]

VScale(s, a) == [j \in 1..Len(a) |-> RMul(s, a[j])]

zeros(n) == [j \in 1..n |-> Rat(0)]

\* np.linspace(0, stop, num) for num >= 0: num evenly spaced samples, the
\* last one set to stop itself.
linspace(stop, num) ==
    [j \in 1..num |->
        IF j = num /\ num > 1 THEN stop
        ELSE IF num = 1 THEN Rat(0)
        ELSE RMul(Rat(j - 1), RDiv(stop, Rat(num - 1)))]

\* a[i] = v for a Python index i (negative counts from the end)
SetItem(a, i, v) ==
    LET j == IF i < 0 THEN Len(a) + i + 1 ELSE i + 1
    IN  [a EXCEPT ![j] = v]

SetSliceFromZero(a, lo, hi, v) ==
    [j \in 1..Len(a) |-> IF j <= Len(v) THEN v[j] ELSE a[j]]

\* a[lo:hi] = v, v of the slice's length
SetSlice(a, lo, hi, v) ==
    LET b == Clip(lo, Len(a))
    IN  [j \in 1..Len(a) |-> IF j > b /\ j <= b + Len(v) THEN v[j - b] ELSE a[j]]

---------------------------------------------------------------------------
(* ftcs_solver *)

BufNames == {"x", "c", "c_new"}

SharedBufOf(r, name) == <<1, name>>

\* The array a call's local `name` is bound to: np.linspace and np.zeros
\* return a new array on every call.
BufOf(r, name) == <<r, name>>

NoLoc ==
    [dx |-> Rat(0), dt |-> Rat(0), alpha |-> Rat(0), warned |-> FALSE,
     n |-> 0, err |-> "none"]

\* Line 9
dxOf(ps, Nx) == RDiv(ps.L, Rat(Nx))

\* Line 10
dtOf(ps, Nt) == RDiv(ps.T_final, Rat(Nt))

alphaOfNoSquare(ps, dx, dt) == RDiv(RMul(ps.D, dt), dx)

\* Line 14
alphaOf(ps, dx, dt) == RDiv(RMul(ps.D, dt), RMul(dx, dx))

UnstableGe(a) == ~RGt(stability_limit, a)

\* the stability check: alpha > stability_limit
Unstable(a) == RGt(a, stability_limit)

\* Lines 7-18: dx, dt, the grid, alpha and the stability warning.
Derive(r, Nx, Nt) ==
    /\ pc[r] = "idle"
    /\ arg' = [arg EXCEPT ![r] = [Nx |-> Nx, Nt |-> Nt]]
    /\ IF Nx = 0 \/ Nt = 0
       THEN \* L / Nx or T_final / Nt: ZeroDivisionError
            /\ pc' = [pc EXCEPT ![r] = "raised"]
            /\ loc' = [loc EXCEPT ![r].err = "ZeroDivisionError"]
            /\ UNCHANGED <<heap, alloc>>
       ELSE IF Nx + 1 < 0
       THEN \* np.linspace with a negative number of samples: ValueError
            /\ pc' = [pc EXCEPT ![r] = "raised"]
            /\ loc' = [loc EXCEPT ![r].err = "ValueError",
                                  ![r].dx = dxOf(p, Nx),
                                  ![r].dt = dtOf(p, Nt)]
            /\ UNCHANGED <<heap, alloc>>
       ELSE LET dx == dxOf(p, Nx)
                dt == dtOf(p, Nt)
                alpha == alphaOf(p, dx, dt)
            IN  /\ pc' = [pc EXCEPT ![r] = "init"]
                /\ loc' = [loc EXCEPT ![r].dx = dx, ![r].dt = dt,
                                      ![r].alpha = alpha,
                                      ![r].warned = Unstable(alpha)]
                /\ heap' = [heap EXCEPT ![BufOf(r, "x")] = linspace(p.L, Nx + 1)]
                /\ alloc' = alloc \cup {BufOf(r, "x")}
    /\ UNCHANGED <<p, studyVars>>

\* Lines 23-30: the two field arrays, the initial condition, c[0] = c0.
InitField(r) ==
    /\ pc[r] = "init"
    /\ alloc' = alloc \cup {BufOf(r, "c"), BufOf(r, "c_new")}
    /\ IF arg[r].Nx + 1 = 0
       THEN \* c[0] on an empty array: IndexError
            /\ pc' = [pc EXCEPT ![r] = "raised"]
            /\ loc' = [loc EXCEPT ![r].err = "IndexError"]
            /\ heap' = [heap EXCEPT ![BufOf(r, "c")] = <<>>,
                                    ![BufOf(r, "c_new")] = <<>>]
       ELSE /\ pc' = [pc EXCEPT ![r] = "loop"]
            /\ heap' = [heap EXCEPT
                 ![BufOf(r, "c")] = SetItem(zeros(arg[r].Nx + 1), 0, p.c0),
                 ![BufOf(r, "c_new")] = zeros(arg[r].Nx + 1)]
            /\ UNCHANGED loc
    /\ UNCHANGED <<p, arg, studyVars>>

RECURSIVE Sweep(_, _, _, _)
Sweep(w, j, alpha, kdt) ==
    IF j >= Len(w) THEN w
    ELSE Sweep([w EXCEPT ![j] =
                   RSub(RAdd(w[j], RMul(alpha, RAdd(RSub(w[j + 1], RMul(Rat(2), w[j])),
                                                    w[j - 1]))),
                        RMul(kdt, w[j]))],
               j + 1, alpha, kdt)

InteriorInPlace(c, alpha, kdt) == PySlice(Sweep(c, 2, alpha, kdt), 1, -1)

\* Line 40, right-hand side: the interior nodes' next values, from c alone.
Interior(c, alpha, kdt) ==
    LET mid == PySlice(c, 1, -1)
        up == PySlice(c, 2, Len(c))
        down == PySlice(c, 0, -2)
    IN  VSub(VAdd(mid, VScale(alpha, VAdd(VSub(up, VScale(Rat(2), mid)), down))),
             VScale(kdt, mid))

RangeHasNextInclusive(n, Nt) == n <= Nt

\* Line 33: range(Nt) has a value left after n iterations
RangeHasNext(n, Nt) == n < Nt

\* Line 33 (the loop has another iteration) and line 40.
UpdateInterior(r) ==
    /\ pc[r] = "loop"
    /\ RangeHasNext(loc[r].n, arg[r].Nt)
    /\ LET c == heap[BufOf(r, "c")]
           kdt == RMul(p.k, loc[r].dt)
       IN  heap' = [heap EXCEPT ![BufOf(r, "c_new")] =
                       SetSlice(@, 1, -1, Interior(c, loc[r].alpha, kdt))]
    /\ pc' = [pc EXCEPT ![r] = "bc"]
    /\ UNCHANGED <<p, arg, loc, alloc, studyVars>>

\* Lines 43-44: c_new[0] = c0, c_new[-1] = 0.
ApplyBC(r) ==
    /\ pc[r] = "bc"
    /\ heap' = [heap EXCEPT ![BufOf(r, "c_new")] =
                   SetItem(SetItem(@, 0, p.c0), -1, Rat(0))]
    /\ pc' = [pc EXCEPT ![r] = "copy"]
    /\ UNCHANGED <<p, arg, loc, alloc, studyVars>>

\* Line 47: c[:] = c_new[:], and the loop variable advances.
CopyBack(r) ==
    /\ pc[r] = "copy"
    /\ heap' = [heap EXCEPT ![BufOf(r, "c")] = heap[BufOf(r, "c_new")]]
    /\ loc' = [loc EXCEPT ![r].n = @ + 1]
    /\ pc' = [pc EXCEPT ![r] = "loop"]
    /\ UNCHANGED <<p, arg, alloc, studyVars>>

\* Line 33 (range(Nt) is exhausted) and line 49: return x, c.
Return(r) ==
    /\ pc[r] = "loop"
    /\ ~RangeHasNext(loc[r].n, arg[r].Nt)
    /\ pc' = [pc EXCEPT ![r] = "done"]
    /\ UNCHANGED <<p, arg, loc, heap, alloc, studyVars>>

\* What the caller holds after the call returned
ResultX(r) == heap[BufOf(r, "x")]

ResultC(r) == heap[BufOf(r, "c")]

Finished(r) == pc[r] \in {"done", "raised"}

StudyIdle ==
    /\ spc = "off"
    /\ idx = 0
    /\ Nt_conv = 0
    /\ calls = <<>>
    /\ error = <<"fin", 1>>
    /\ errors = <<>>
    /\ dx_values = <<>>
    /\ fit = "none"

SolverIdle(R) ==
    /\ pc = [r \in R |-> "idle"]
    /\ arg = [r \in R |-> [Nx |-> 0, Nt |-> 0]]
    /\ loc = [r \in R |-> NoLoc]
    /\ heap = [b \in R \X BufNames |-> <<>>]
    /\ alloc = {}

Init ==
    /\ p \in SolverParams
    /\ SolverIdle(Calls)
    /\ StudyIdle

\* A call by a single-threaded script: the calls before it have ended.  The
\* arguments are any integers, valid or not.
Call(r) ==
    /\ \A q \in Calls : q < r => Finished(q)
    /\ \E Nx \in (-MinArg)..MaxNx, Nt \in (1 - MinArg)..MaxNt : Derive(r, Nx, Nt)

Next ==
    \E r \in Calls :
        \/ Call(r)
        \/ InitField(r)
        \/ UpdateInterior(r)
        \/ ApplyBC(r)
        \/ CopyBack(r)
        \/ Return(r)

Spec == Init /\ [][Next]_vars

\* One call per candidate resolution, started at any time: the calls' steps
\* interleave.
ParCall(r) == \E Nx \in 2..MaxNx, Nt \in 1..ParMaxNt : Derive(r, Nx, Nt)

ParNext ==
    \E r \in Runs :
        \/ ParCall(r)
        \/ InitField(r)
        \/ UpdateInterior(r)
        \/ ApplyBC(r)
        \/ CopyBack(r)
        \/ Return(r)

ParInit ==
    /\ p \in ParParams
    /\ SolverIdle(Runs)
    /\ StudyIdle

ParSpec == ParInit /\ [][ParNext]_vars

---------------------------------------------------------------------------
(* result_and_plot.py: the convergence study *)

grids == <<20, 40, 80, 160, 320>>

\* A value of np.sqrt(np.mean(...)): a finite float, inf or nan
ErrVals == {<<"fin", v>> : v \in 1..MaxErr} \cup {<<"inf", 0>>, <<"nan", 0>>}

isfinite(e) == e[1] = "fin"

\* Line 43
StepCount(N) == 2 * (N * N)

\* Line 40: the next candidate, and line 43.
NextCandidate ==
    /\ spc = "loop"
    /\ idx < Len(grids)
    /\ idx' = idx + 1
    /\ Nt_conv' = StepCount(grids[idx + 1])
    /\ spc' = "run"
    /\ UNCHANGED <<p, solverVars, calls, error, errors, dx_values, fit>>

\* Lines 46-50: the solver call (what it derives and whether it warns), the
\* reference solution and the RMS error, which is any float.
RunSolver ==
    /\ spc = "run"
    /\ LET N == grids[idx]
           dx == dxOf(p, N)
           dt == dtOf(p, Nt_conv)
           alpha == alphaOf(p, dx, dt)
       IN  \E e \in ErrVals :
               /\ calls' = Append(calls, [Nx |-> N, Nt |-> Nt_conv, alpha |-> alpha,
                                          warned |-> Unstable(alpha), error |-> e])
               /\ error' = e
    /\ spc' = "check"
    /\ UNCHANGED <<p, solverVars, idx, Nt_conv, errors, dx_values, fit>>

CheckErrorContinue ==
    /\ spc = "check"
    /\ IF ~isfinite(error)
       THEN /\ spc' = "loop"
            /\ UNCHANGED <<errors, dx_values>>
       ELSE /\ errors' = Append(errors, error)
            /\ dx_values' = Append(dx_values, RDiv(p.L, Rat(grids[idx])))
            /\ spc' = "loop"
    /\ UNCHANGED <<p, solverVars, idx, Nt_conv, calls, error, fit>>

\* Lines 53-58: break on a non-finite error, else record the error and dx.
CheckError ==
    /\ spc = "check"
    /\ IF ~isfinite(error)
       THEN /\ spc' = "fit"
            /\ UNCHANGED <<errors, dx_values>>
       ELSE /\ errors' = Append(errors, error)
            /\ dx_values' = Append(dx_values, RDiv(p.L, Rat(grids[idx])))
            /\ spc' = "loop"
    /\ UNCHANGED <<p, solverVars, idx, Nt_conv, calls, error, fit>>

\* Line 40: grids is exhausted.
LoopEnd ==
    /\ spc = "loop"
    /\ idx = Len(grids)
    /\ spc' = "fit"
    /\ UNCHANGED <<p, solverVars, idx, Nt_conv, calls, error, errors, dx_values, fit>>

\* np.polyfit(x, y, 1): TypeError on an empty x; one point gives a
\* rank-deficient least-squares solution (a RankWarning, coefficients are
\* returned); otherwise the fitted slope and intercept.
polyfit(x, y) ==
    IF Len(x) = 0 THEN "TypeError"
    ELSE IF Len(x) = 1 THEN "slope_rank_deficient"
    ELSE "slope"

\* Lines 61-65: the fit and the printed slope; an exception ends the script.
SlopeCalc ==
    /\ spc = "fit"
    /\ fit' = polyfit(dx_values, errors)
    /\ spc' = "end"
    /\ UNCHANGED <<p, solverVars, idx, Nt_conv, calls, error, errors, dx_values>>

StudyInit ==
    /\ p \in StudyParams
    /\ SolverIdle({})
    /\ spc = "loop"
    /\ idx = 0
    /\ Nt_conv = 0
    /\ calls = <<>>
    /\ error = <<"fin", 1>>
    /\ errors = <<>>
    /\ dx_values = <<>>
    /\ fit = "none"

StudyNext ==
    \/ NextCandidate
    \/ RunSolver
    \/ CheckError
    \/ LoopEnd
    \/ SlopeCalc

StudySpec == StudyInit /\ [][StudyNext]_vars

---------------------------------------------------------------------------
(* The properties.  Indices below are Python's: At(a, i) is a[i]. *)

At(a, i) == a[i + 1]

Valid(r) == pc[r] # "idle" /\ arg[r].Nx >= 2 /\ arg[r].Nt >= 1

Stepping(r) == pc[r] \in {"loop", "bc", "copy", "done"}

\* alpha = D*dt/dx^2 with dt = T_final/Nt and dx = L/Nx, in closed form
AlphaClosed(ps, Nx, Nt) ==
    RDiv(RMul(RMul(ps.D, ps.T_final), Rat(Nx * Nx)), RMul(Rat(Nt), RMul(ps.L, ps.L)))

\* The zero field with node 0 = c0
StartField(ps, Nx) == [j \in 1..(Nx + 1) |-> IF j = 1 THEN ps.c0 ELSE Rat(0)]

\* One step of the update rule, node by node, from the field cur
RuleStep(cur, a, kdt, c0v) ==
    [j \in 1..Len(cur) |->
        IF j = 1 THEN c0v
        ELSE IF j = Len(cur) THEN Rat(0)
        ELSE RSub(RAdd(cur[j],
                       RMul(a, RAdd(RSub(cur[j + 1], RMul(Rat(2), cur[j])), cur[j - 1]))),
                  RMul(kdt, cur[j]))]

RECURSIVE RuleField(_, _, _, _)
RuleField(ps, Nx, Nt, n) ==
    IF n = 0 THEN StartField(ps, Nx)
    ELSE RuleStep(RuleField(ps, Nx, Nt, n - 1), AlphaClosed(ps, Nx, Nt),
                  RDiv(RMul(ps.k, ps.T_final), Rat(Nt)), ps.c0)

\* Nx + 1 points i*L/Nx, i = 0..Nx
EvenGrid(ps, Nx) == [j \in 1..(Nx + 1) |-> RDiv(RMul(Rat(j - 1), ps.L), Rat(Nx))]

C1_Inv ==
    \A r \in DOMAIN pc :
        Valid(r) /\ Stepping(r) =>
            /\ Len(ResultC(r)) = arg[r].Nx + 1
            /\ At(ResultC(r), 0) = p.c0
            /\ At(ResultC(r), arg[r].Nx) = Rat(0)

C1_Act ==
    \A r \in DOMAIN pc :
        Valid(r) /\ pc[r] = "loop" /\ pc'[r] = "bc" =>
            /\ Len(heap'[BufOf(r, "c_new")]) = arg[r].Nx + 1
            /\ At(heap'[BufOf(r, "c_new")], 0) = At(heap[BufOf(r, "c_new")], 0)
            /\ At(heap'[BufOf(r, "c_new")], arg[r].Nx)
                 = At(heap[BufOf(r, "c_new")], arg[r].Nx)

\* C1: for a valid call (Nx >= 2, Nt >= 1) the field has Nx + 1 entries and, from
\* the initial state on, after every step and when returned, entry 0 is c0 and
\* entry Nx is 0; the interior update leaves both boundary nodes of the array
\* it writes as they were.
C1_BoundariesHeld == []C1_Inv /\ [][C1_Act]_vars

C1_Witness ==
    \E r \in DOMAIN pc :
        /\ pc[r] = "done"
        /\ arg[r].Nx = 3
        /\ arg[r].Nt = 2
        /\ At(ResultC(r), 1) # Rat(0)
        /\ At(ResultC(r), 2) # Rat(0)

C2_Inv ==
    \A r \in DOMAIN pc :
        Valid(r) /\ Stepping(r) =>
            /\ RMul(loc[r].dt, Rat(arg[r].Nt)) = p.T_final
            /\ loc[r].n <= arg[r].Nt
            /\ pc[r] = "loop" => ResultC(r) = RuleField(p, arg[r].Nx, arg[r].Nt, loc[r].n)
            /\ pc[r] = "loop" /\ loc[r].n = 0 => ResultC(r) = StartField(p, arg[r].Nx)
            /\ pc[r] = "done" =>
                /\ loc[r].n = arg[r].Nt
                /\ ResultX(r) = EvenGrid(p, arg[r].Nx)
                /\ At(ResultX(r), 0) = Rat(0)
                /\ At(ResultX(r), arg[r].Nx) = p.L
                /\ ResultC(r) = RuleField(p, arg[r].Nx, arg[r].Nt, arg[r].Nt)

\* Statements a valid call still has to execute: two before the loop's end
\* test, three per remaining step.
Remaining(r) ==
    CASE pc[r] = "init" -> 3 * arg[r].Nt + 2
      [] pc[r] = "loop" -> 3 * (arg[r].Nt - loc[r].n) + 1
      [] pc[r] = "bc" -> 3 * (arg[r].Nt - loc[r].n)
      [] pc[r] = "copy" -> 3 * (arg[r].Nt - loc[r].n) - 1
      [] OTHER -> 0

C2_Variant ==
    \A r \in DOMAIN pc :
        Valid(r) /\ pc'[r] # pc[r] =>
            /\ Remaining(r)' = Remaining(r) - 1
            /\ Remaining(r)' >= 0
            /\ Remaining(r)' = 0 <=> pc'[r] = "done"

\* C2: a valid call starts from the field that is 0 except node 0 = c0, makes
\* exactly Nt steps with dt = T_final / Nt, and then terminates (every
\* statement it executes lowers the count of statements left, 3*Nt + 2 at the
\* start, by one, and the count is 0 exactly on return), returning the grid of
\* Nx + 1 evenly spaced points from 0 to L and the field after step Nt.
C2_RunsNtSteps == []C2_Inv /\ [][C2_Variant]_vars

C2_Witness ==
    \E r \in DOMAIN pc :
        /\ pc[r] = "done"
        /\ arg[r] = [Nx |-> 3, Nt |-> 2]
        /\ loc[r].n = 2
        /\ Len(ResultX(r)) = 4

\* C3: the warning is raised exactly when alpha = D*dt/dx^2 > 0.5 (not at 0.5),
\* and it is not fatal: a valid call, warned or not, does not raise, and
\* returns after Nt steps the field the update rule defines.
C3_WarningNonFatal ==
    \A r \in DOMAIN pc :
        /\ pc[r] \in {"init", "loop", "bc", "copy", "done"} =>
              (loc[r].warned <=> RGt(AlphaClosed(p, arg[r].Nx, arg[r].Nt), <<1, 2>>))
        /\ Valid(r) => pc[r] # "raised"
        /\ Valid(r) /\ pc[r] = "done" =>
              /\ loc[r].n = arg[r].Nt
              /\ ResultC(r) = RuleField(p, arg[r].Nx, arg[r].Nt, arg[r].Nt)

C3_Witness ==
    \E r \in DOMAIN pc :
        /\ pc[r] = "done"
        /\ Valid(r)
        /\ loc[r].warned
        /\ arg[r].Nt = 2
        /\ RGt(loc[r].alpha, <<1, 2>>)

\* C4: a call with Nx <= 0 or Nt <= 0 is rejected with an error before any
\* field is initialised or stepped, and never returns a grid and a field.
C4_Rejected ==
    \A r \in DOMAIN pc :
        pc[r] # "idle" /\ (arg[r].Nx <= 0 \/ arg[r].Nt <= 0) =>
            /\ pc[r] # "done"
            /\ heap[BufOf(r, "c")] = <<>>

NonFinite == {j \in 1..Len(calls) : ~isfinite(calls[j].error)}

C5_Recorded ==
    /\ Len(errors) = Len(dx_values)
    /\ Len(errors) <= Len(calls)
    /\ \A j \in 1..Len(errors) :
          /\ errors[j] = calls[j].error
          /\ isfinite(errors[j])
          /\ RMul(dx_values[j], Rat(grids[j])) = p.L
    /\ \A j \in 1..Len(calls) : calls[j].Nx = grids[j]
    /\ spc \in {"fit", "end"} =>
          /\ Len(errors) = Len(calls) - Cardinality(NonFinite)
          /\ NonFinite = {} => Len(calls) = Len(grids)

\* C5, amended: the records are the pairs (L/N, error(N)) of the longest prefix
\* of the candidates whose errors are all finite, in order; the first
\* non-finite error stops the loop; that resolution has been run but is not
\* recorded, every later one is neither run nor recorded, and only finite
\* errors reach the fit.
C5_FinitePrefix ==
    /\ C5_Recorded
    /\ NonFinite \subseteq {Len(calls)}

C5_Witness ==
    /\ spc = "end"
    /\ Len(calls) = 3
    /\ ~isfinite(calls[3].error)
    /\ Len(errors) = 2
    /\ Len(dx_values) = 2

\* C5 as stated: as above, but the resolution with the first non-finite error
\* is itself not run.
C5_Original ==
    /\ C5_Recorded
    /\ NonFinite = {}

\* C6: a study that ends its loop with fewer than two records reports itself
\* inconclusive: it neither fits a slope nor crashes.
C6_Inconclusive == spc = "end" /\ Len(errors) < 2 => fit = "inconclusive"

\* C7 (the fitted log-log slope on the reference configuration lies in
\* [1.8, 2.2]) is a statement about logarithms of float RMS errors against a
\* series of sinh, exp and sin terms; it has no formula here.

C8_Act ==
    \A r \in DOMAIN pc :
        pc[r] = "loop" /\ pc'[r] = "bc" =>
            LET cur == heap[BufOf(r, "c")]
                next == heap'[BufOf(r, "c_new")]
                alpha == loc[r].alpha
                kdt == RMul(p.k, loc[r].dt)
            IN  /\ heap'[BufOf(r, "c")] = cur
                /\ \A i \in 1..(arg[r].Nx - 1) :
                      At(next, i) =
                          RSub(RAdd(At(cur, i),
                                    RMul(alpha, RAdd(RSub(At(cur, i + 1),
                                                          RMul(Rat(2), At(cur, i))),
                                                     At(cur, i - 1)))),
                               RMul(kdt, At(cur, i)))

C8_Frozen ==
    \A r \in DOMAIN pc :
        pc[r] \in {"loop", "bc"} /\ pc'[r] \in {"bc", "copy"} =>
            heap'[BufOf(r, "c")] = heap[BufOf(r, "c")]

\* C8: in every step, every interior next[i] is cur[i] + alpha*(cur[i+1] -
\* 2*cur[i] + cur[i-1]) - k*dt*cur[i] with cur the field as it stood when the
\* step began; cur is not written until the step's final copy.
C8_FrozenSnapshot == [][C8_Act /\ C8_Frozen]_vars

C8_Witness ==
    \E r \in DOMAIN pc :
        /\ pc[r] = "bc"
        /\ loc[r].n = 1
        /\ arg[r].Nx = 3
        /\ At(heap[BufOf(r, "c")], 1) # Rat(0)
        /\ At(heap[BufOf(r, "c_new")], 2) # Rat(0)

C10_Inv ==
    \A r \in DOMAIN pc :
        /\ pc[r] = "loop" => ResultC(r) = RuleField(p, arg[r].Nx, arg[r].Nt, loc[r].n)
        /\ pc[r] = "done" =>
              /\ ResultX(r) = EvenGrid(p, arg[r].Nx)
              /\ ResultC(r) = RuleField(p, arg[r].Nx, arg[r].Nt, arg[r].Nt)

C10_Act ==
    /\ p' = p
    /\ \A r \in DOMAIN pc :
          pc'[r] = pc[r] =>
              \A name \in BufNames : heap'[BufOf(r, name)] = heap[BufOf(r, name)]

\* C10: with the steps of several calls interleaved in any order, every call
\* returns the grid and the field it returns when run alone, a step of one
\* call leaves the arrays of every other call as they were, and no step
\* changes the parameter set.
C10_RunsIndependent == []C10_Inv /\ [][C10_Act]_vars

C10_Witness ==
    /\ pc[1] = "copy"
    /\ pc[2] = "bc"
    /\ arg[1].Nx # arg[2].Nx
    /\ At(heap[BufOf(1, "c_new")], 1) # At(heap[BufOf(2, "c_new")], 1)

====
